---- MODULE Spec2Model ----
(***************************************************************************)
(* Model of scripts/ingest_data.py: the ingestion pipeline that loads CSV  *)
(* files into the raw_sales and raw_inventory tables.                      *)
(*                                                                         *)
(* main() drops both tables in one transaction and then calls              *)
(* ingest_files() once for the sales files and once for the inventory      *)
(* files.  ingest_files() reads the files one by one, renames drifted      *)
(* columns, casts every column to text, collects the frames in             *)
(* current_batch and writes the diagonal concatenation of the batch to the *)
(* table when the batch is full or the last file has been processed.       *)
(* One try/except wraps the whole loop body, the write included.           *)
(***************************************************************************)
EXTENDS Integers, Sequences, FiniteSets, TLC

\* ---------------------------------------------------------------- bounds
\* MaxFiles bounds the number of files in the two directories together.
MaxFiles == 3
MaxBatchSize == 2
MaxInvocations == 2

\* ------------------------------------------------------------- utilities
Range(s) == {s[k] : k \in 1..Len(s)}

SeqsUpTo(S, n) == UNION {[1..m -> S] : m \in 0..n}

\* ------------------------------------------------------------ the values
\* A cell of a frame: a typed value, as polars holds it after read_csv.
IntV(n) == [t |-> "int", v |-> n]
FloatV(w, f) == [t |-> "float", v |-> <<w, f>>]
BoolV(b) == [t |-> "bool", v |-> b]
StrV(s) == [t |-> "str", v |-> s]
NullV == [t |-> "null", v |-> 0]

\* A cast that prints null as text.
CastValueNullText(x) ==
    CASE x.t = "int" -> [t |-> "str", v |-> ToString(x.v)]
      [] x.t = "float" -> [t |-> "str", v |-> ToString(x.v[1]) \o "." \o ToString(x.v[2])]
      [] x.t = "bool" -> [t |-> "str", v |-> IF x.v THEN "true" ELSE "false"]
      [] x.t = "str" -> x
      [] x.t = "null" -> [t |-> "str", v |-> "null"]

\* pl.Utf8 cast of one value: numbers and booleans are printed, text is kept,
\* null stays null.
CastValue(x) ==
    CASE x.t = "int" -> StrV(ToString(x.v))
      [] x.t = "float" -> StrV(ToString(x.v[1]) \o "." \o ToString(x.v[2]))
      [] x.t = "bool" -> StrV(IF x.v THEN "true" ELSE "false")
      [] x.t = "str" -> x
      [] x.t = "null" -> x

\* ------------------------------------------------------------ the frames
\* A frame: the ordered column names and the rows.  A row carries its cells
\* and src = <<file index, row number>>, the place the row was read from.
Frame(cols, rows) == [cols |-> cols, rows |-> rows]

Row(src, cells) == [src |-> src, cells |-> cells]

\* df.select(pl.all().cast(pl.Utf8))
CastUtf8(df) ==
    Frame(df.cols,
          [k \in 1..Len(df.rows) |->
              Row(df.rows[k].src,
                  [c \in DOMAIN df.rows[k].cells |-> CastValue(df.rows[k].cells[c])])])

\* --------------------------------------------------------- configuration
SALES_SCHEMA_MAP ==
    [c \in {"qty", "quant", "count", "price", "cost", "tx_id", "txn_id",
            "prod_id", "item_id", "total", "amount", "date", "timestamp"} |->
        CASE c \in {"qty", "quant", "count"} -> "quantity"
          [] c \in {"price", "cost"} -> "unit_price"
          [] c \in {"tx_id", "txn_id"} -> "transaction_id"
          [] c \in {"prod_id", "item_id"} -> "product_id"
          [] c \in {"total", "amount"} -> "total_amount"
          [] c \in {"date", "timestamp"} -> "transaction_timestamp"]

\* A schema_map argument: a dict, or None (the default of ingest_files).
Dict(d) == [none |-> FALSE, d |-> d]

None == [none |-> TRUE, d |-> << >>]

\* Python truth value of a schema_map: None and the empty dict are false.
Truthy(schema_map) == ~schema_map.none /\ DOMAIN schema_map.d # {}

Tables == {"raw_sales", "raw_inventory"}

\* The arguments main passes to ingest_files for each table.
SchemaMapOf(table) == IF table = "raw_sales" THEN Dict(SALES_SCHEMA_MAP) ELSE None

\* ------------------------------------------------------------- the files
\* The kinds of file the directories may hold.  What a file holds is fixed by
\* its kind and its index p in the enumeration.
\*   drift    sales file with the alias columns tx_id, qty and sale_date
\*   canon    sales file with transaction_id, quantity and date_of_sale
\*   collide  sales file with both qty and quantity
\*   inv      inventory file (its qty column is a key of the sales map)
\*   corrupt  a file read_csv cannot read (empty, unreadable)
SalesKinds == {"drift", "canon", "collide", "corrupt"}

InvKinds == {"inv", "corrupt"}

Cells(cols, vals) == [c \in Range(cols) |-> vals[CHOOSE k \in 1..Len(cols) : cols[k] = c]]

FileFrame(kind, p) ==
    CASE kind = "drift" ->
           LET cols == <<"tx_id", "qty", "sale_date">>
           IN Frame(cols,
                    <<Row(<<p, 1>>, Cells(cols, <<IntV(10 * p + 1), IntV(3), StrV("2024-01-01")>>))>>)
      [] kind = "canon" ->
           LET cols == <<"transaction_id", "quantity", "date_of_sale">>
           IN Frame(cols,
                    <<Row(<<p, 1>>, Cells(cols, <<IntV(10 * p + 1), IntV(2), StrV("2024-02-01")>>)),
                      Row(<<p, 2>>, Cells(cols, <<IntV(10 * p + 2), NullV, StrV("2024-02-02")>>))>>)
      [] kind = "collide" ->
           LET cols == <<"qty", "quantity">>
           IN Frame(cols, <<Row(<<p, 1>>, Cells(cols, <<IntV(4), IntV(4)>>))>>)
      [] kind = "inv" ->
           LET cols == <<"delivery_id", "qty", "delivery_status">>
           IN Frame(cols,
                    <<Row(<<p, 1>>, Cells(cols, <<IntV(10 * p + 1), FloatV(1, 5), BoolV(TRUE)>>))>>)

\* The outcome of a step that may raise: ok with a value, or the exception.
Ok(x) == [ok |-> TRUE, val |-> x]

Raised == [ok |-> FALSE, val |-> << >>]

\* pl.read_csv(file_path, ignore_errors=True)
ReadCsv(kind, p) == IF kind = "corrupt" THEN Raised ELSE Ok(FileFrame(kind, p))

\* A rename dictionary that maps each key column to itself.
RenameDictToSelf(current_cols, schema_map) ==
    [c \in {c \in Range(current_cols) : c \in DOMAIN schema_map} |-> c]

\* The rename dictionary built from the columns that are keys of schema_map.
RenameDict(current_cols, schema_map) ==
    [c \in {c \in Range(current_cols) : c \in DOMAIN schema_map} |-> schema_map[c]]

\* The name df.rename(rename_dict) gives column c.
NewName(c, rename_dict) == IF c \in DOMAIN rename_dict THEN rename_dict[c] ELSE c

\* df.rename(rename_dict): raises when two columns would get the same name.
Rename(df, rename_dict) ==
    LET newcols == [k \in 1..Len(df.cols) |-> NewName(df.cols[k], rename_dict)]
        old(n) == CHOOSE c \in Range(df.cols) : NewName(c, rename_dict) = n
    IN IF Cardinality(Range(newcols)) < Len(newcols)
       THEN Raised
       ELSE Ok(Frame(newcols,
                     [k \in 1..Len(df.rows) |->
                         Row(df.rows[k].src,
                             [n \in Range(newcols) |-> df.rows[k].cells[old(n)]])]))

\* The normalisation of one frame.
Normalize(df, schema_map) ==
    IF Truthy(schema_map)
    THEN LET rename_dict == RenameDict(df.cols, schema_map.d)
         IN IF DOMAIN rename_dict # {} THEN Rename(df, rename_dict) ELSE Ok(df)
    ELSE Ok(df)

\* The body of the loop up to the append: read, normalise, cast.
LoadFile(kind, p, schema_map) ==
    LET r == ReadCsv(kind, p)
    IN IF ~r.ok THEN Raised
       ELSE LET n == Normalize(r.val, schema_map)
            IN IF ~n.ok THEN Raised ELSE Ok(CastUtf8(n.val))

\* ------------------------------------------------------------- the flush
\* The flush test without its last-file clause.
ShouldFlushNoLast(batch_len, bsize, idx, total) == batch_len >= bsize

\* The test that guards the write.
ShouldFlush(batch_len, bsize, idx, total) == batch_len >= bsize \/ idx = total - 1

\* Column names in order of first appearance.
RECURSIVE AppendNew(_, _)
AppendNew(cols, more) ==
    IF more = << >> THEN cols
    ELSE AppendNew(IF more[1] \in Range(cols) THEN cols ELSE Append(cols, more[1]),
                   Tail(more))

RECURSIVE UnionCols(_)
UnionCols(batch) ==
    IF batch = << >> THEN << >>
    ELSE AppendNew(batch[1].cols, UnionCols(Tail(batch)))

\* A row widened to the columns cols: null where the row has no such column.
Widen(row, cols) ==
    Row(row.src,
        [c \in Range(cols) |-> IF c \in DOMAIN row.cells THEN row.cells[c] ELSE NullV])

\* The rows of the frames with the last frame first.
RECURSIVE AllRowsReversed(_)
AllRowsReversed(batch) ==
    IF batch = << >> THEN << >> ELSE AllRowsReversed(Tail(batch)) \o batch[1].rows

RECURSIVE AllRows(_)
AllRows(batch) ==
    IF batch = << >> THEN << >> ELSE batch[1].rows \o AllRows(Tail(batch))

\* A concatenation that keeps only the columns of the first frame.
ConcatFirstCols(batch) ==
    LET cols == batch[1].cols
        rows == AllRows(batch)
    IN Frame(cols, [k \in 1..Len(rows) |-> Widen(rows[k], cols)])

\* pl.concat(current_batch, how="diagonal")
ConcatDiagonal(batch) ==
    LET cols == UnionCols(batch)
        rows == AllRows(batch)
    IN Frame(cols, [k \in 1..Len(rows) |-> Widen(rows[k], cols)])

\* ------------------------------------------------------------- the sink
\* A table of the database: absent, or its columns and its rows.
NoTable == [exists |-> FALSE, cols |-> << >>, rows |-> << >>]

\* A drop that leaves the table as it is.
DropTableKeeps(tbl) == tbl

\* DROP TABLE IF EXISTS
DropTable(tbl) == NoTable

\* to_sql with if_exists='replace': the table becomes the frame.
ToSqlReplace(tbl, df) == Ok([exists |-> TRUE, cols |-> df.cols, rows |-> df.rows])

\* to_sql(table_name, engine, if_exists='append', index=False): creates the
\* table with the frame's columns when it is absent, else inserts the rows;
\* the insert raises when the frame has a column the table lacks.
ToSql(tbl, df) ==
    IF ~tbl.exists
    THEN Ok([exists |-> TRUE, cols |-> df.cols, rows |-> df.rows])
    ELSE IF Range(df.cols) \subseteq Range(tbl.cols)
         THEN Ok([tbl EXCEPT !.rows =
                     @ \o [k \in 1..Len(df.rows) |-> Widen(df.rows[k], tbl.cols)]])
         ELSE Raised

\* -------------------------------------------------------------- the state
VARIABLES
    files,          \* table -> the file kinds glob finds for it, in glob order
    batch_size,     \* files per write (500 in the script; the model ranges over sizes)
    pc,             \* where main is: idle, connect, drop_sales, drop_inventory,
                    \* commit, raw_sales / raw_inventory (inside ingest_files for
                    \* that table), exit0 (returned), exit1 (ended by an exception)
    sink,           \* table -> the committed table of the database
    dropped,        \* tables dropped in main's open transaction
    i,              \* loop index of ingest_files (0-based)
    current_batch,  \* frames waiting for the next write
    invocation,     \* number of times main has been started
    run,            \* record of the current ingest_files call (history)
    inv             \* record of the current invocation of main (history)

vars == <<files, batch_size, pc, sink, dropped, i, current_batch, invocation, run, inv>>

total_files == IF pc \in Tables THEN Len(files[pc]) ELSE 0

\* History of one ingest_files call.
\*   attempted  indices of the files whose loop body has started, in order
\*   skipped    indices of the files whose loop body raised before the append
\*   appended   indices of the files whose frame was appended to the batch
\*   attempts   number of to_sql calls
\*   writes     number of to_sql calls that returned
\*   failures   number of to_sql calls that raised
\*   failedAt   number of files attempted when the first to_sql call raised, else -1
\*   lastWrite  the frame handed to the latest to_sql call
\*   connLost   a to_sql call raised though the table would have taken the frame
NewRun ==
    [attempted |-> << >>, skipped |-> {}, appended |-> {}, attempts |-> 0,
     writes |-> 0, failures |-> 0, failedAt |-> -1, lastWrite |-> Frame(<< >>, << >>),
     connLost |-> FALSE]

\* History of one invocation of main.
\*   drops      table -> number of DROP statements executed for it
\*   committed  the drops have been committed
\*   written    table -> the rows this invocation inserted
\*   reads      number of files read
\*   unreachable  the database connection failed during the drop phase
\*   stale      table -> number of rows the table held when main started
\*   skips      a loop body raised before its append
\*   failed     a to_sql call raised
NewInv ==
    [drops |-> [t \in Tables |-> 0], committed |-> FALSE,
     written |-> [t \in Tables |-> << >>], reads |-> 0, unreachable |-> FALSE,
     stale |-> [t \in Tables |-> 0], skips |-> FALSE, failed |-> FALSE]

Init ==
    /\ files \in [Tables -> SeqsUpTo(SalesKinds \cup InvKinds, MaxFiles)]
    /\ Range(files["raw_sales"]) \subseteq SalesKinds
    /\ Range(files["raw_inventory"]) \subseteq InvKinds
    /\ Len(files["raw_sales"]) + Len(files["raw_inventory"]) <= MaxFiles
    /\ batch_size \in 1..MaxBatchSize
    /\ pc = "idle"
    /\ sink = [t \in Tables |-> NoTable]
    /\ dropped = {}
    /\ i = 0
    /\ current_batch = << >>
    /\ invocation = 0
    /\ run = NewRun
    /\ inv = NewInv

\* ------------------------------------------------------------------ main
\* A batch that a new call of ingest_files inherits from the call before.
BatchAtEntryKept(batch) == batch

\* current_batch = [] at the top of ingest_files: each call starts empty.
BatchAtEntry(batch) == << >>

\* A main that ends with an error when the run skipped a file.
AfterRunFailsOnSkip(table, r) ==
    IF r.skipped # {} THEN "exit1"
    ELSE IF table = "raw_sales" THEN "raw_inventory" ELSE "exit0"

\* Where main goes when ingest_files returns for table: ingest_files returns
\* nothing and main looks at nothing, so the run's record r plays no part.
AfterRun(table, r) == IF table = "raw_sales" THEN "raw_inventory" ELSE "exit0"

\* The script is started: main() up to get_db_engine().
Invoke ==
    /\ pc \in {"idle", "exit0", "exit1"}
    /\ invocation < MaxInvocations
    /\ pc' = "connect"
    /\ invocation' = invocation + 1
    /\ inv' = [NewInv EXCEPT !.stale = [t \in Tables |-> Len(sink[t].rows)]]
    /\ run' = NewRun
    /\ dropped' = {}
    /\ i' = 0
    /\ current_batch' = << >>
    /\ UNCHANGED <<files, batch_size, sink>>

\* with engine.connect() as conn
Connect ==
    /\ pc = "connect"
    /\ pc' = "drop_sales"
    /\ UNCHANGED <<files, batch_size, sink, dropped, i, current_batch, invocation, run, inv>>

\* The table a drop statement of main names.
DropTarget == IF pc = "drop_sales" THEN "raw_sales" ELSE "raw_inventory"

\* DROP TABLE without IF EXISTS: raises for a missing table.
DropStatementStrict(tbl) == IF tbl.exists THEN Ok(DropTable(tbl)) ELSE Raised

\* conn.execute(text("DROP TABLE IF EXISTS ...")): never raises for a missing table.
DropStatement(tbl) == Ok(DropTable(tbl))

\* One of the two drop statements, inside the open transaction.
ExecuteDrop ==
    /\ pc \in {"drop_sales", "drop_inventory"}
    /\ LET r == DropStatement(IF DropTarget \in dropped THEN NoTable ELSE sink[DropTarget])
       IN IF r.ok
          THEN /\ dropped' = dropped \cup {DropTarget}
               /\ inv' = [inv EXCEPT !.drops[DropTarget] = @ + 1]
               /\ pc' = IF pc = "drop_sales" THEN "drop_inventory" ELSE "commit"
          ELSE /\ dropped' = {}
               /\ inv' = inv
               /\ pc' = "exit1"
    /\ UNCHANGED <<files, batch_size, sink, i, current_batch, invocation, run>>

\* conn.commit(), then ingest_files(sales_pattern, "raw_sales", SALES_SCHEMA_MAP)
\* up to its loop.
Commit ==
    /\ pc = "commit"
    /\ sink' = [t \in Tables |-> IF t \in dropped THEN DropTable(sink[t]) ELSE sink[t]]
    /\ dropped' = {}
    /\ inv' = [inv EXCEPT !.committed = TRUE]
    /\ pc' = "raw_sales"
    /\ i' = 0
    /\ current_batch' = BatchAtEntry(current_batch)
    /\ run' = NewRun
    /\ UNCHANGED <<files, batch_size, invocation>>

\* The database cannot be reached while main connects, drops or commits: the
\* exception leaves main, the open transaction is rolled back.
SinkUnreachable ==
    /\ pc \in {"connect", "drop_sales", "drop_inventory", "commit"}
    /\ pc' = "exit1"
    /\ dropped' = {}
    /\ inv' = [inv EXCEPT !.unreachable = TRUE]
    /\ UNCHANGED <<files, batch_size, sink, i, current_batch, invocation, run>>

\* ---------------------------------------------------------- ingest_files
InLoop == pc \in Tables /\ i < total_files

\* What the loop body loads for the file at index i.
Loaded == LoadFile(files[pc][i + 1], i + 1, SchemaMapOf(pc))

\* The batch after the append of the loaded frame.
Grown == Append(current_batch, Loaded.val)

\* The write of the batch the body would make.
Written == ToSql(sink[pc], ConcatDiagonal(Grown))

\* A write after which the batch is kept.
AfterWriteKeeps(batch) == batch

\* current_batch = [] after the write.
AfterWrite(batch) == << >>

\* An except clause that also empties the batch.
AfterExceptClears(batch) == << >>

\* What the except clause leaves of the batch: it only prints.
AfterExcept(batch) == batch

\* The body raises before the append (read, rename or cast): the except clause
\* prints and the loop goes on.
SkipFile ==
    /\ InLoop
    /\ ~Loaded.ok
    /\ current_batch' = AfterExcept(current_batch)
    /\ i' = i + 1
    /\ run' = [run EXCEPT !.attempted = Append(@, i), !.skipped = @ \cup {i}]
    /\ inv' = [inv EXCEPT !.reads = @ + 1, !.skips = TRUE]
    /\ UNCHANGED <<files, batch_size, pc, sink, dropped, invocation>>

\* The frame is appended and the flush test is false.
Accumulate ==
    /\ InLoop
    /\ Loaded.ok
    /\ ~ShouldFlush(Len(Grown), batch_size, i, total_files)
    /\ current_batch' = Grown
    /\ i' = i + 1
    /\ run' = [run EXCEPT !.attempted = Append(@, i), !.appended = @ \cup {i}]
    /\ inv' = [inv EXCEPT !.reads = @ + 1]
    /\ UNCHANGED <<files, batch_size, pc, sink, dropped, invocation>>

\* The frame is appended, the flush test is true and to_sql returns: the batch
\* is cleared.
Flush ==
    /\ InLoop
    /\ Loaded.ok
    /\ ShouldFlush(Len(Grown), batch_size, i, total_files)
    /\ Grown # << >>
    /\ Written.ok
    /\ sink' = [sink EXCEPT ![pc] = Written.val]
    /\ current_batch' = AfterWrite(Grown)
    /\ i' = i + 1
    /\ run' = [run EXCEPT !.attempted = Append(@, i), !.appended = @ \cup {i},
                          !.attempts = @ + 1, !.writes = @ + 1,
                          !.lastWrite = ConcatDiagonal(Grown)]
    /\ inv' = [inv EXCEPT !.reads = @ + 1,
                          !.written[pc] = @ \o SubSeq(Written.val.rows,
                                                      Len(sink[pc].rows) + 1,
                                                      Len(Written.val.rows))]
    /\ UNCHANGED <<files, batch_size, pc, dropped, invocation>>

\* The frame is appended, the flush test is true and to_sql raises (the insert
\* names a column the table lacks, or the connection is lost): the write is
\* rolled back, the except clause prints, the batch is not cleared and the
\* loop goes on.
FlushFails ==
    /\ InLoop
    /\ Loaded.ok
    /\ ShouldFlush(Len(Grown), batch_size, i, total_files)
    /\ Grown # << >>
    /\ current_batch' = AfterExcept(Grown)
    /\ i' = i + 1
    /\ run' = [run EXCEPT !.attempted = Append(@, i), !.appended = @ \cup {i},
                          !.attempts = @ + 1, !.failures = @ + 1,
                          !.failedAt = IF @ = -1 THEN i + 1 ELSE @,
                          !.lastWrite = ConcatDiagonal(Grown),
                          !.connLost = @ \/ Written.ok]
    /\ inv' = [inv EXCEPT !.reads = @ + 1, !.failed = TRUE]
    /\ UNCHANGED <<files, batch_size, pc, sink, dropped, invocation>>

\* The loop is over: ingest_files prints the time taken and returns; main goes
\* on with the inventory files, or returns.
IngestReturn ==
    /\ pc \in Tables
    /\ i = total_files
    /\ pc' = AfterRun(pc, run)
    /\ i' = 0
    /\ current_batch' = BatchAtEntry(current_batch)
    /\ run' = IF pc = "raw_sales" THEN NewRun ELSE run
    /\ UNCHANGED <<files, batch_size, sink, dropped, invocation, inv>>

Next ==
    \/ Invoke
    \/ Connect
    \/ ExecuteDrop
    \/ Commit
    \/ SinkUnreachable
    \/ SkipFile
    \/ Accumulate
    \/ Flush
    \/ FlushFails
    \/ IngestReturn

Spec == Init /\ [][Next]_vars

\* ------------------------------------------------------------ properties
\* ingest_files has left its loop and is about to return.
AtReturn == pc \in Tables /\ i = total_files

\* The file indices (1-based) whose rows the rows carry.
FilesIn(rows) == {rows[k].src[1] : k \in 1..Len(rows)}

\* Every row of the file at index p (1-based) of the current run is in rows.
HoldsFile(rows, p) ==
    \A r \in 1..Len(FileFrame(files[pc][p], p).rows) :
        \E k \in 1..Len(rows) : rows[k].src = <<p, r>>

CeilDiv(n, k) == (n + k - 1) \div k

\* C1: in a run whose files all load and whose writes all succeed, the number
\* of writes after i files is i div K while files remain and ceil(N/K) once
\* all N files are processed (0 when N = 0): a write happens exactly when the
\* batch reaches K frames or the file just processed is the last one.
C1_WriteCount ==
    (pc \in Tables /\ run.skipped = {} /\ run.failures = 0) =>
        /\ run.attempts = run.writes
        /\ run.writes = IF i = total_files
                        THEN CeilDiv(total_files, batch_size)
                        ELSE i \div batch_size
        /\ Len(current_batch) = IF i = total_files THEN 0 ELSE i % batch_size

C1_Witness ==
    /\ AtReturn
    /\ total_files = 3
    /\ batch_size = 2
    /\ run.skipped = {}
    /\ run.failures = 0
    /\ run.writes = 2

\* C2: when exactly one file of the run is corrupt, wherever it stands in the
\* enumeration, and no write fails, the table holds the rows of every other
\* file when ingest_files returns.
C2_OneCorruptOthersIngested ==
    (/\ AtReturn
     /\ Cardinality({p \in 1..total_files : files[pc][p] = "corrupt"}) = 1
     /\ Cardinality(run.skipped) = 1
     /\ run.failures = 0) =>
        \A p \in 1..total_files :
            files[pc][p] # "corrupt" => HoldsFile(sink[pc].rows, p)

\* The same with the corrupt file anywhere but last (holds).
C2_CorruptNotLast ==
    (/\ AtReturn
     /\ Cardinality({p \in 1..total_files : files[pc][p] = "corrupt"}) = 1
     /\ Cardinality(run.skipped) = 1
     /\ files[pc][total_files] # "corrupt"
     /\ run.failures = 0) =>
        \A p \in 1..total_files :
            files[pc][p] # "corrupt" => HoldsFile(sink[pc].rows, p)

\* A step in which the loop body of one file raised before the append.
SkipStep == pc' = pc /\ run'.skipped \ run.skipped # {}

\* C3: a file-level failure leaves the batch and the table as they were, the
\* run goes on with the next file, the failing file never has a row in the
\* batch or the table, and every file of the enumeration is attempted by the
\* time ingest_files returns.
C3_SkipKeepsBatchAndRun ==
    /\ [][SkipStep => /\ current_batch' = current_batch
                      /\ sink' = sink
                      /\ i' = i + 1
                      /\ pc' \in Tables]_vars
    /\ [](pc \in Tables =>
            /\ \A p \in run.skipped :
                  /\ p + 1 \notin FilesIn(sink[pc].rows)
                  /\ p + 1 \notin FilesIn(AllRows(current_batch))
            /\ AtReturn => run.attempted = [k \in 1..total_files |-> k - 1])

C3_Witness ==
    /\ AtReturn
    /\ total_files = 3
    /\ run.skipped = {1}
    /\ run.failures = 0
    /\ FilesIn(sink[pc].rows) = {1, 3}

\* C4: after a write has failed, the run reads no further file and makes no
\* further write attempt.
C4_AbortAfterFailedWrite ==
    [][(pc \in Tables /\ pc' = pc /\ run.failures > 0) =>
          /\ run'.attempted = run.attempted
          /\ run'.attempts = run.attempts]_vars

\* C5: the number of write attempts of a run is bounded by the number of its
\* files, and when ingest_files returns normally every frame that was appended
\* to the batch has been written to the table.
C5_NoSilentDrop ==
    /\ pc \in Tables => run.attempts <= total_files
    /\ AtReturn => \A p \in run.appended : HoldsFile(sink[pc].rows, p + 1)

\* The bounded half of C5 alone (holds).
C5_AttemptsBounded == pc \in Tables => run.attempts <= total_files

\* C6: when main has returned from its second (or a later) invocation over
\* the same files, each table holds exactly the rows that invocation
\* inserted, in that order, and no row twice.
C6_SecondRunOnly ==
    (pc = "exit0" /\ invocation >= 2) =>
        \A t \in Tables :
            /\ sink[t].rows = inv.written[t]
            /\ \A j, k \in 1..Len(sink[t].rows) :
                  sink[t].rows[j].src = sink[t].rows[k].src => j = k

C6_Witness ==
    /\ pc = "exit0"
    /\ invocation = 2
    /\ inv.stale["raw_sales"] > 0
    /\ inv.stale["raw_inventory"] > 0
    /\ Len(sink["raw_sales"].rows) > 0
    /\ Len(sink["raw_inventory"].rows) > 0

\* C7: in one invocation of main each table is dropped at most once and the
\* drops are committed before any file is read and before any write; once
\* ingest_files runs each table has been dropped exactly once and is not
\* dropped again; main ends with an exception in the drop phase only when the
\* database is unreachable, never because a table to drop is missing.
C7_DropOnceAtTop ==
    /\ \A t \in Tables : inv.drops[t] <= 1
    /\ (pc \in Tables \cup {"exit0"}) =>
          /\ inv.committed
          /\ \A t \in Tables : inv.drops[t] = 1
    /\ ~inv.committed =>
          /\ inv.reads = 0
          /\ run.attempts = 0
          /\ \A t \in Tables : inv.written[t] = << >>
    /\ pc = "exit1" => inv.unreachable

C7_Witness ==
    /\ pc = "exit0"
    /\ invocation = 1
    /\ inv.stale = [t \in Tables |-> 0]
    /\ inv.reads > 1
    /\ \A t \in Tables : Len(inv.written[t]) > 0

\* The columns that hold the date of a sale.
DateCols == {"sale_date", "date_of_sale", "date", "timestamp", "transaction_timestamp"}

\* C8: after a sales run over one file with the columns tx_id, qty and
\* sale_date and one with transaction_id, quantity and date_of_sale, with no
\* failed write, the table holds the rows of both files, has the columns
\* quantity and transaction_id and exactly one date column.
C8_UnifiedSalesColumns ==
    (/\ pc = "raw_sales"
     /\ AtReturn
     /\ files["raw_sales"] \in {<<"drift", "canon">>, <<"canon", "drift">>}
     /\ run.failures = 0) =>
        /\ HoldsFile(sink[pc].rows, 1)
        /\ HoldsFile(sink[pc].rows, 2)
        /\ {"quantity", "transaction_id"} \subseteq Range(sink[pc].cols)
        /\ {"qty", "tx_id"} \cap Range(sink[pc].cols) = {}
        /\ Cardinality(Range(sink[pc].cols) \cap DateCols) = 1

\* C8 without the single date column (holds).
C8_UnifiedButDate ==
    (/\ pc = "raw_sales"
     /\ AtReturn
     /\ files["raw_sales"] \in {<<"drift", "canon">>, <<"canon", "drift">>}
     /\ run.failures = 0) =>
        /\ HoldsFile(sink[pc].rows, 1)
        /\ HoldsFile(sink[pc].rows, 2)
        /\ {"quantity", "transaction_id"} \subseteq Range(sink[pc].cols)
        /\ {"qty", "tx_id"} \cap Range(sink[pc].cols) = {}

\* w is the reconciliation of the frames of batch: the union of their
\* columns, one row per row of each frame, each with its own values and null
\* for the columns its frame lacks.
Reconciled(batch, w) ==
    LET union == UNION {Range(batch[k].cols) : k \in 1..Len(batch)}
    IN /\ Range(w.cols) = union
       /\ Len(w.cols) = Cardinality(union)
       /\ Len(w.rows) = Len(AllRows(batch))
       /\ \A k \in 1..Len(batch) : \A r \in 1..Len(batch[k].rows) :
             \E j \in 1..Len(w.rows) :
                /\ w.rows[j].src = batch[k].rows[r].src
                /\ DOMAIN w.rows[j].cells = union
                /\ \A c \in union :
                      w.rows[j].cells[c] =
                          IF c \in Range(batch[k].cols)
                          THEN batch[k].rows[r].cells[c]
                          ELSE NullV

\* C9: the frame each flush hands to the table is the reconciliation of the
\* batch it flushes.
C9_DiagonalUnion ==
    [][(pc \in Tables /\ pc' = pc /\ run'.attempts = run.attempts + 1) =>
          Reconciled(Grown, run'.lastWrite)]_vars

C9_Witness ==
    /\ pc = "raw_sales"
    /\ run.writes = 1
    /\ {"sale_date", "date_of_sale"} \subseteq Range(run.lastWrite.cols)
    /\ Len(run.lastWrite.rows) = 3
    /\ Len(sink[pc].rows) = 3

\* The name the rename table of the run gives column c.
Canonical(c, schema_map) ==
    IF ~schema_map.none /\ c \in DOMAIN schema_map.d THEN schema_map.d[c] ELSE c

\* C10: every frame in the batch has, column by column, the names of its
\* file with each key of the run's rename table replaced by the table's value
\* and every other name kept; without a rename table all names are kept.
C10_NormalizeColumns ==
    pc \in Tables =>
        \A k \in 1..Len(current_batch) :
            LET f == current_batch[k]
                p == f.rows[1].src[1]
                in == FileFrame(files[pc][p], p)
            IN /\ Len(f.cols) = Len(in.cols)
               /\ \A j \in 1..Len(in.cols) :
                     f.cols[j] = Canonical(in.cols[j], SchemaMapOf(pc))
               /\ SchemaMapOf(pc).none => f.cols = in.cols

C10_Witness ==
    /\ pc = "raw_sales"
    /\ Len(current_batch) = 1
    /\ files[pc][1] = "drift"
    /\ current_batch[1].cols = <<"transaction_id", "quantity", "sale_date">>

\* The inventory side of C10: a key of the sales table is kept.
C10_WitnessInventory ==
    /\ pc = "raw_inventory"
    /\ Len(current_batch) = 1
    /\ "qty" \in Range(current_batch[1].cols)

\* The indices (1-based) of the files of the run whose rename plan collides.
Colliding == {p \in 1..total_files : files[pc][p] = "collide"}

\* C11: a sales file whose rename plan collides (qty next to quantity) is
\* not skipped: when ingest_files returns after writes that all succeeded,
\* its rows are in the table, under the one column quantity.
C11_CollisionIngested ==
    (pc = "raw_sales" /\ AtReturn /\ run.failures = 0) =>
        \A p \in Colliding :
            /\ p - 1 \notin run.skipped
            /\ HoldsFile(sink[pc].rows, p)
            /\ "quantity" \in Range(sink[pc].cols)
            /\ "qty" \notin Range(sink[pc].cols)

\* What the code does with such a file (holds): it is skipped on every run.
C11_CollisionSkipped ==
    (pc = "raw_sales" /\ AtReturn) =>
        \A p \in Colliding :
            /\ p - 1 \in run.skipped
            /\ p \notin FilesIn(sink[pc].rows)

\* C12: main ends with an error only when the database was unreachable in the
\* drop phase or a write failed; once the drops are committed, however many
\* files are skipped, main is in one of its runs or has returned normally.
C12_ExitCode ==
    /\ pc = "exit1" => (inv.unreachable \/ inv.failed)
    /\ (inv.committed /\ ~inv.failed) => pc \in Tables \cup {"exit0"}
    /\ (pc \in {"exit0", "exit1"} /\ inv.skips /\ ~inv.failed) => pc = "exit0"

C12_Witness ==
    /\ pc = "exit0"
    /\ inv.skips
    /\ ~inv.failed
    /\ inv.reads = 3
    /\ Len(inv.written["raw_sales"]) = 0

\* The other end of C12's range: the database is unreachable at startup.
C12_WitnessUnreachable == pc = "exit1" /\ inv.unreachable /\ inv.drops["raw_sales"] = 0

\* In the code a failed write does not end main with an error (reachable).
C12_FailedWriteExitsZero == pc = "exit0" /\ inv.failed

\* C13: whatever happened in the sales run, the step that ends it starts the
\* inventory run with index 0 and an empty batch, and the batch and the table
\* of the inventory run only ever hold frames and rows of inventory files.
C13_RunsIndependent ==
    /\ [][(pc = "raw_sales" /\ pc' # pc) =>
             /\ pc' = "raw_inventory"
             /\ current_batch' = << >>
             /\ i' = 0
             /\ run' = NewRun]_vars
    /\ [](/\ (pc = "raw_sales" /\ AtReturn) => ENABLED IngestReturn
          /\ pc = "raw_inventory" =>
                /\ \A k \in 1..Len(current_batch) :
                      "delivery_id" \in Range(current_batch[k].cols)
                /\ Len(current_batch) <= i
                /\ \A k \in 1..Len(sink[pc].rows) :
                      "delivery_id" \in DOMAIN sink[pc].rows[k].cells)

C13_Witness ==
    /\ pc = "raw_inventory"
    /\ inv.failed
    /\ inv.skips
    /\ Len(inv.written["raw_sales"]) = 0
    /\ i = 1
    /\ Len(sink[pc].rows) = 1

\* The cell the file at index p (1-based) of the current run holds in row r
\* under the column that norm names c after normalisation.
SourceCell(p, r, c) ==
    LET in == FileFrame(files[pc][p], p)
        old == CHOOSE o \in Range(in.cols) : Canonical(o, SchemaMapOf(pc)) = c
    IN in.rows[r].cells[old]

\* C14: every cell of every frame in the batch is text or null; a cell is
\* null exactly when the cell read from the file is null, a text cell of the
\* file is kept as it is, and casting the frame again changes nothing.
C14_CastTotalIdempotent ==
    pc \in Tables =>
        \A k \in 1..Len(current_batch) :
            LET f == current_batch[k]
            IN /\ CastUtf8(f) = f
               /\ CastUtf8(CastUtf8(f)) = CastUtf8(f)
               /\ \A j \in 1..Len(f.rows) : \A c \in Range(f.cols) :
                     LET x == f.rows[j].cells[c]
                         y == SourceCell(f.rows[j].src[1], f.rows[j].src[2], c)
                     IN /\ x.t \in {"str", "null"}
                        /\ (x.t = "null") <=> (y.t = "null")
                        /\ y.t = "str" => x = y
                        /\ y.t # "null" => x.v # "null"

\* A batch with a null cell, a text cell and a printed number.
C14_Witness ==
    /\ pc = "raw_sales"
    /\ Len(current_batch) = 1
    /\ Len(current_batch[1].rows) = 2
    /\ current_batch[1].rows[2].cells["quantity"] = NullV
    /\ current_batch[1].rows[2].cells["date_of_sale"] = StrV("2024-02-02")
    /\ current_batch[1].rows[2].cells["transaction_id"] = StrV("12")

\* The float and bool side of C14.
C14_WitnessInventory ==
    /\ pc = "raw_inventory"
    /\ Len(current_batch) = 1
    /\ current_batch[1].rows[1].cells["qty"] = StrV("1.5")
    /\ current_batch[1].rows[1].cells["delivery_status"] = StrV("true")

IsPrefix(s, t) == Len(s) <= Len(t) /\ SubSeq(t, 1, Len(s)) = s

\* C15: within a run every step leaves the rows the table already holds in
\* place and unchanged, a failed write leaves the table as it was, the other
\* table is not touched, and a write to an absent table creates it.
C15_AppendOnly ==
    [][(pc \in Tables /\ pc' = pc) =>
          /\ IsPrefix(sink[pc].rows, sink'[pc].rows)
          /\ \A t \in Tables \ {pc} : sink'[t] = sink[t]
          /\ run'.failures > run.failures => sink' = sink
          /\ run'.writes > run.writes =>
                /\ sink'[pc].exists
                /\ sink[pc].exists => sink'[pc].cols = sink[pc].cols
                /\ Len(sink'[pc].rows) = Len(sink[pc].rows) + Len(run'.lastWrite.rows)]_vars

C15_Witness ==
    /\ pc = "raw_sales"
    /\ run.writes = 2
    /\ run.failures = 1
    /\ FilesIn(sink[pc].rows) = {1, 2, 3}

\* src a comes before src b: earlier file, or same file and earlier row.
SrcBefore(a, b) == a[1] < b[1] \/ (a[1] = b[1] /\ a[2] < b[2])

\* The rows are in the order of the enumeration, each at most once.
InFileOrder(rows) ==
    \A j, k \in 1..Len(rows) : j < k => SrcBefore(rows[j].src, rows[k].src)

\* C16: the file list of a run never changes; each loop step reads exactly
\* the next file of the enumeration and makes at most one to_sql call, after
\* that read; the files read so far are 0 .. i-1, each once and in order; the
\* rows in the table and in the batch are in enumeration order.
C16_SequentialInOrder ==
    /\ [][/\ files' = files
          /\ (pc \in Tables /\ pc' = pc) =>
                /\ run'.attempted = Append(run.attempted, i)
                /\ i' = i + 1
                /\ inv'.reads = inv.reads + 1
                /\ run'.attempts \in {run.attempts, run.attempts + 1}]_vars
    /\ [](pc \in Tables =>
            /\ run.attempted = [k \in 1..i |-> k - 1]
            /\ i <= total_files
            /\ InFileOrder(sink[pc].rows \o AllRows(current_batch)))

C16_Witness ==
    /\ pc = "raw_sales"
    /\ AtReturn
    /\ total_files = 3
    /\ batch_size = 2
    /\ run.writes = 2
    /\ Len(sink[pc].rows) >= 4

\* C17: the batch never holds more than batch_size frames, and it is empty
\* right after every to_sql call, whether the call returned or raised.
C17_BoundedBatch ==
    [][(pc \in Tables /\ pc' = pc) =>
          /\ Len(current_batch') <= batch_size
          /\ run'.attempts > run.attempts => current_batch' = << >>]_vars

\* C17 for runs in which no to_sql call raises (holds).
C17_BoundedWithoutFailure ==
    (pc \in Tables /\ run.failures = 0) => Len(current_batch) < batch_size

\* The size the batch reaches after failed writes (reachable).
C17_BatchOverSize == pc \in Tables /\ Len(current_batch) > batch_size

\* C18: in a run in which every file loads and no connection is lost, the
\* table holds the rows of every file when ingest_files returns, wherever
\* the batch boundaries fall, also when a later batch has a column that the
\* table created by an earlier write lacks.
C18_BoundaryIndependent ==
    (AtReturn /\ run.skipped = {} /\ ~run.connLost) =>
        \A p \in 1..total_files : HoldsFile(sink[pc].rows, p)

\* C18 for runs whose files all go out in one write (holds).
C18_SingleWrite ==
    (AtReturn /\ run.skipped = {} /\ ~run.connLost /\ total_files <= batch_size) =>
        \A p \in 1..total_files : HoldsFile(sink[pc].rows, p)

\* C19: within a run no row of a file is in the table twice, and no frame
\* still in the batch has a row in the table.
C19_AtMostOnce ==
    pc \in Tables =>
        /\ \A j, k \in 1..Len(sink[pc].rows) :
              sink[pc].rows[j].src = sink[pc].rows[k].src => j = k
        /\ FilesIn(sink[pc].rows) \cap FilesIn(AllRows(current_batch)) = {}
        /\ Len(inv.written[pc]) = Len(sink[pc].rows)

C19_Witness ==
    /\ pc = "raw_sales"
    /\ AtReturn
    /\ run.failures = 1
    /\ run.writes = 1
    /\ run.skipped = {}
    /\ total_files = 2
    /\ FilesIn(sink[pc].rows) = {1, 2}
====
